---------------------------- MODULE Spec2Model ----------------------------
(***************************************************************************)
(* Court Data Fetcher (src/app.py): the Flask routes /, /search,           *)
(* /download_pdf and /history, the browser sequencer                       *)
(* CourtDataScraper.scrape_case_data, the result parser parse_case_data    *)
(* and the SQLite table of Query Records.                                  *)
(*                                                                         *)
(* Text is modelled as a sequence of one-character strings, so that        *)
(* lower(), strip(), isdigit(), startswith() and the substring test `in`   *)
(* are computed and not assumed.  Python's None is the value None below.   *)
(* A dict is a function from its keys to its values.                       *)
(*                                                                         *)
(* Requests are handled one at a time, each handler as one step; the       *)
(* response of a handler stays in `exchange` until the client has received *)
(* it.  The SQLite file is taken to be present and writable (init_db has   *)
(* run), and ChromiumDriver.quit does not raise.                           *)
(***************************************************************************)
EXTENDS Integers, Sequences, FiniteSets, TLC

VARIABLES
    store,      \* the rows of table `queries`, in rowid order
    submitted,  \* history: the cases of the searches that passed validation, in order
    now,        \* the value of CURRENT_TIMESTAMP, in whole seconds
    exchange,   \* the HTTP exchange being answered: request, response, what the handler did
    soup,       \* the page given to parse_case_data when it is called on its own
    result      \* what that call returned, as a one-element sequence (empty: not called yet)

vars == <<store, submitted, now, exchange, soup, result>>

---------------------------------------------------------------------------
(* Python values and str methods *)

None == <<"None">>

Truthy(x) == x # None /\ x # <<>>

UpperLetters == <<"A","B","C","D","E","F","G","H","I","J","K","L","M","N","O","P","Q","R","S","T",
    "U","V","W","X","Y","Z">>

LowerLetters == <<"a","b","c","d","e","f","g","h","i","j","k","l","m","n","o","p","q","r","s","t",
    "u","v","w","x","y","z">>

Digits == {"0","1","2","3","4","5","6","7","8","9"}

Whitespace == {" ", "\t", "\n", "\r"}

char_lower(c) ==
    IF \E i \in DOMAIN UpperLetters : UpperLetters[i] = c
    THEN LowerLetters[CHOOSE i \in DOMAIN UpperLetters : UpperLetters[i] = c]
    ELSE c

char_upper(c) ==
    IF \E i \in DOMAIN LowerLetters : LowerLetters[i] = c
    THEN UpperLetters[CHOOSE i \in DOMAIN LowerLetters : LowerLetters[i] = c]
    ELSE c

str_lower(s) == [i \in 1..Len(s) |-> char_lower(s[i])]

str_upper(s) == [i \in 1..Len(s) |-> char_upper(s[i])]

\* sub in s
str_in(sub, s) ==
    \E i \in 0..(Len(s) - Len(sub)) : \A j \in 1..Len(sub) : s[i + j] = sub[j]

str_startswith(s, prefix) ==
    /\ Len(s) >= Len(prefix)
    /\ \A j \in 1..Len(prefix) : s[j] = prefix[j]

str_isdigit(s) == Len(s) > 0 /\ \A i \in 1..Len(s) : s[i] \in Digits

str_strip(s) ==
    LET keep == {i \in 1..Len(s) : s[i] \notin Whitespace}
    IN  IF keep = {} THEN <<>>
        ELSE SubSeq(s, CHOOSE i \in keep : \A k \in keep : i <= k,
                       CHOOSE i \in keep : \A k \in keep : i >= k)

\* s[:n]
str_head(s, n) == SubSeq(s, 1, IF Len(s) < n THEN Len(s) ELSE n)

\* s[i:] with i counted from 0
str_from(s, i) == SubSeq(s, i + 1, Len(s))

\* s.find(c): the index (from 0) of the first c in s, -1 when there is none
str_find(s, c) ==
    IF \E i \in 1..Len(s) : s[i] = c
    THEN (CHOOSE i \in 1..Len(s) : s[i] = c /\ \A k \in 1..(i - 1) : s[k] # c) - 1
    ELSE -1

\* s.rfind(c)
str_rfind(s, c) ==
    IF \E i \in 1..Len(s) : s[i] = c
    THEN (CHOOSE i \in 1..Len(s) : s[i] = c /\ \A k \in (i + 1)..Len(s) : s[k] # c) - 1
    ELSE -1

RECURSIVE str_join(_, _)
str_join(sep, parts) ==
    IF parts = <<>> THEN <<>>
    ELSE IF Len(parts) = 1 THEN parts[1]
    ELSE parts[1] \o sep \o str_join(sep, Tail(parts))

\* d[k] = v
dict_set(d, k, v) == (k :> v) @@ d

\* d.get(k, default)
dict_get(d, k, default) == IF k \in DOMAIN d THEN d[k] ELSE default

---------------------------------------------------------------------------
(* The string literals of src/app.py *)

\* "https://delhihighcourt.nic.in"
base_url == <<"h","t","t","p","s",":","/","/","d","e","l","h","i","h","i","g","h","c","o","u",
    "r","t",".","n","i","c",".","i","n">>
\* "Failed to initialize browser driver"
s_init_failed == <<"F","a","i","l","e","d"," ","t","o"," ","i","n","i","t","i","a","l","i","z",
    "e"," ","b","r","o","w","s","e","r"," ","d","r","i","v","e","r">>
\* "CAPTCHA is required. Please provide the CAPTCHA token manually from the court website."
s_captcha_required == <<"C","A","P","T","C","H","A"," ","i","s"," ","r","e","q","u","i","r","e",
    "d","."," ","P","l","e","a","s","e"," ","p","r","o","v","i","d","e"," ","t","h","e"," ","C",
    "A","P","T","C","H","A"," ","t","o","k","e","n"," ","m","a","n","u","a","l","l","y"," ","f",
    "r","o","m"," ","t","h","e"," ","c","o","u","r","t"," ","w","e","b","s","i","t","e",".">>
\* "CAPTCHA is required but could not be handled: "
s_captcha_unhandled == <<"C","A","P","T","C","H","A"," ","i","s"," ","r","e","q","u","i","r",
    "e","d"," ","b","u","t"," ","c","o","u","l","d"," ","n","o","t"," ","b","e"," ","h","a","n",
    "d","l","e","d",":"," ">>
\* "CAPTCHA is incorrect"
s_CAPTCHA_is_incorrect == <<"C","A","P","T","C","H","A"," ","i","s"," ","i","n","c","o","r","r",
    "e","c","t">>
\* "incorrect"
s_incorrect == <<"i","n","c","o","r","r","e","c","t">>
\* "CAPTCHA verification failed. The CAPTCHA code was incorrect."
s_captcha_failed_early == <<"C","A","P","T","C","H","A"," ","v","e","r","i","f","i","c","a","t",
    "i","o","n"," ","f","a","i","l","e","d","."," ","T","h","e"," ","C","A","P","T","C","H","A",
    " ","c","o","d","e"," ","w","a","s"," ","i","n","c","o","r","r","e","c","t",".">>
\* "Could not fill form: "
s_could_not_fill == <<"C","o","u","l","d"," ","n","o","t"," ","f","i","l","l"," ","f","o","r",
    "m",":"," ">>
\* "captcha is incorrect"
s_captcha_is_incorrect == <<"c","a","p","t","c","h","a"," ","i","s"," ","i","n","c","o","r","r",
    "e","c","t">>
\* "CAPTCHA verification failed. The CAPTCHA code was incorrect. Please get a fresh CAPTCHA from the court website and try again."
s_captcha_failed_late == <<"C","A","P","T","C","H","A"," ","v","e","r","i","f","i","c","a","t",
    "i","o","n"," ","f","a","i","l","e","d","."," ","T","h","e"," ","C","A","P","T","C","H","A",
    " ","c","o","d","e"," ","w","a","s"," ","i","n","c","o","r","r","e","c","t","."," ","P","l",
    "e","a","s","e"," ","g","e","t"," ","a"," ","f","r","e","s","h"," ","C","A","P","T","C","H",
    "A"," ","f","r","o","m"," ","t","h","e"," ","c","o","u","r","t"," ","w","e","b","s","i","t",
    "e"," ","a","n","d"," ","t","r","y"," ","a","g","a","i","n",".">>
\* "field is required"
s_field_is_required == <<"f","i","e","l","d"," ","i","s"," ","r","e","q","u","i","r","e","d">>
\* "case type.*required"
s_case_type_required == <<"c","a","s","e"," ","t","y","p","e",".","*","r","e","q","u","i","r",
    "e","d">>
\* "Case Type"
s_Case_Type == <<"C","a","s","e"," ","T","y","p","e">>
\* "case number.*required"
s_case_number_required == <<"c","a","s","e"," ","n","u","m","b","e","r",".","*","r","e","q","u",
    "i","r","e","d">>
\* "Case Number"
s_Case_Number == <<"C","a","s","e"," ","N","u","m","b","e","r">>
\* "year.*required"
s_year_required == <<"y","e","a","r",".","*","r","e","q","u","i","r","e","d">>
\* "Year"
s_Year == <<"Y","e","a","r">>
\* "Form validation failed. Missing fields: "
s_validation_failed == <<"F","o","r","m"," ","v","a","l","i","d","a","t","i","o","n"," ","f",
    "a","i","l","e","d","."," ","M","i","s","s","i","n","g"," ","f","i","e","l","d","s",":",
    " ">>
\* ", "
s_comma_space == <<","," ">>
\* "No case found with the provided details. This could be due to: 1) Case doesn't exist in court records, 2) CAPTCHA validation failed, 3) Case is in different category"
s_no_case_found == <<"N","o"," ","c","a","s","e"," ","f","o","u","n","d"," ","w","i","t","h",
    " ","t","h","e"," ","p","r","o","v","i","d","e","d"," ","d","e","t","a","i","l","s","."," ",
    "T","h","i","s"," ","c","o","u","l","d"," ","b","e"," ","d","u","e"," ","t","o",":"," ","1",
    ")"," ","C","a","s","e"," ","d","o","e","s","n","'","t"," ","e","x","i","s","t"," ","i","n",
    " ","c","o","u","r","t"," ","r","e","c","o","r","d","s",","," ","2",")"," ","C","A","P","T",
    "C","H","A"," ","v","a","l","i","d","a","t","i","o","n"," ","f","a","i","l","e","d",","," ",
    "3",")"," ","C","a","s","e"," ","i","s"," ","i","n"," ","d","i","f","f","e","r","e","n","t",
    " ","c","a","t","e","g","o","r","y">>
\* "caseTable"
s_caseTable == <<"c","a","s","e","T","a","b","l","e">>
\* ".pdf"
s_pdf == <<".","p","d","f">>
\* "order"
s_order == <<"o","r","d","e","r">>
\* "judgment"
s_judgment == <<"j","u","d","g","m","e","n","t">>
\* "case-type-status-details"
s_details == <<"c","a","s","e","-","t","y","p","e","-","s","t","a","t","u","s","-","d","e","t",
    "a","i","l","s">>
\* "orders"
s_orders == <<"o","r","d","e","r","s">>
\* "view"
s_view == <<"v","i","e","w">>
\* "http"
s_http == <<"h","t","t","p">>
\* "ACTIVE"
s_ACTIVE == <<"A","C","T","I","V","E">>
\* "petitioner"
s_petitioner == <<"p","e","t","i","t","i","o","n","e","r">>
\* "respondent"
s_respondent == <<"r","e","s","p","o","n","d","e","n","t">>
\* "filing"
s_filing == <<"f","i","l","i","n","g">>
\* "registration"
s_registration == <<"r","e","g","i","s","t","r","a","t","i","o","n">>
\* "listing"
s_listing == <<"l","i","s","t","i","n","g">>
\* "hearing"
s_hearing == <<"h","e","a","r","i","n","g">>
\* "All fields are required"
s_all_required == <<"A","l","l"," ","f","i","e","l","d","s"," ","a","r","e"," ","r","e","q","u",
    "i","r","e","d">>
\* "PDF URL not provided"
s_pdf_not_provided == <<"P","D","F"," ","U","R","L"," ","n","o","t"," ","p","r","o","v","i","d",
    "e","d">>
\* "Failed to download PDF"
s_pdf_failed == <<"F","a","i","l","e","d"," ","t","o"," ","d","o","w","n","l","o","a","d"," ",
    "P","D","F">>
\* "Invalid IPv6 URL"
s_invalid_ipv6 == <<"I","n","v","a","l","i","d"," ","I","P","v","6"," ","U","R","L">>
\* "timeout"
exception_text == <<"t","i","m","e","o","u","t">>

---------------------------------------------------------------------------
(* urllib.parse.urljoin, as far as parse_case_data uses it.  Dot segments  *)
(* ("./", "../") and empty path segments are left as they are.             *)

SchemeChars == {UpperLetters[i] : i \in DOMAIN UpperLetters}
    \cup {LowerLetters[i] : i \in DOMAIN LowerLetters} \cup Digits \cup {"+", "-", "."}

Letters == {UpperLetters[i] : i \in DOMAIN UpperLetters}
    \cup {LowerLetters[i] : i \in DOMAIN LowerLetters}

\* urlsplit: whether url starts with "<scheme>:"
url_has_scheme(url) ==
    LET i == str_find(url, ":")
    IN  /\ i > 0
        /\ url[1] \in Letters
        /\ \A k \in 1..i : url[k] \in SchemeChars

url_scheme(url) == IF url_has_scheme(url) THEN str_lower(str_head(url, str_find(url, ":"))) ELSE <<>>

\* url without its "<scheme>:"
url_rest(url) == IF url_has_scheme(url) THEN str_from(url, str_find(url, ":") + 1) ELSE url

url_has_netloc(url) == str_startswith(url_rest(url), <<"/", "/">>)

\* the authority: what follows "//" up to the next "/", "?" or "#"
url_netloc(url) ==
    LET r == str_from(url_rest(url), 2)
        stops == {i \in 1..Len(r) : r[i] \in {"/", "?", "#"}}
    IN  IF stops = {} THEN r
        ELSE SubSeq(r, 1, (CHOOSE i \in stops : \A k \in stops : i <= k) - 1)

\* urlsplit raises ValueError("Invalid IPv6 URL") on an unbalanced bracket in the authority
urljoin_raises(url) ==
    /\ url_has_netloc(url)
    /\ LET n == url_netloc(url)
       IN  (str_in(<<"[">>, n) /\ ~str_in(<<"]">>, n)) \/ (str_in(<<"]">>, n) /\ ~str_in(<<"[">>, n))

urljoin(base, url) ==
    LET bscheme == url_scheme(base)
        scheme == IF url_has_scheme(url) THEN url_scheme(url) ELSE bscheme
        rest == url_rest(url)
    IN  IF scheme # bscheme THEN url
        ELSE IF url_has_netloc(url) THEN scheme \o <<":">> \o rest
        ELSE IF rest = <<>> THEN base
        ELSE IF rest[1] \in {"/", "?", "#"} THEN base \o rest
        ELSE base \o <<"/">> \o rest

---------------------------------------------------------------------------
(* The rendered page: its text outside tables and its tables.  A table has *)
(* an id, rows outside a tbody (head) and, when it has a tbody, the rows   *)
(* in it (body).  A cell has a tag, a leading text node and its links.     *)

\* Tag.get_text(strip=True) of a link
link_get_text(link) == str_strip(link.text)

RECURSIVE links_text(_)
links_text(links) ==
    IF links = <<>> THEN <<>> ELSE link_get_text(Head(links)) \o links_text(Tail(links))

\* Tag.get_text(strip=True) of a cell: its strings, each stripped, joined
get_text(cell) == str_strip(cell.text) \o links_text(cell.links)

\* row.find_all('td')
find_all_td(row) == SelectSeq(row, LAMBDA c : c.tag = "td")

\* table.find_all('tr')
find_all_tr(table) == table.head \o (IF table.tbody THEN table.body ELSE <<>>)

---------------------------------------------------------------------------
(* CourtDataScraper.parse_case_data.  A parse state is the dict being      *)
(* filled and the exception raised so far (None: none).                    *)

\* src/app.py:368-375
link_qualifies(href, link_text) ==
    /\ Truthy(href)
    /\ \/ str_in(s_pdf, str_lower(href))
       \/ str_in(s_order, str_lower(href))
       \/ str_in(s_judgment, str_lower(href))
       \/ str_in(s_details, href)
       \/ str_in(s_orders, link_text)
       \/ str_in(s_view, link_text)

\* src/app.py:376-380
resolve_link(st, href) ==
    IF str_startswith(href, s_http)
    THEN [st EXCEPT !.data = dict_set(@, "order_judgment_link", href)]
    ELSE IF urljoin_raises(href)
    THEN [st EXCEPT !.exc = s_invalid_ipv6]
    ELSE [st EXCEPT !.data = dict_set(@, "order_judgment_link", urljoin(base_url, href))]

\* for link in links (363-382): the first qualifying link is taken and the loop left
RECURSIVE scan_links(_, _)
scan_links(links, st) ==
    IF links = <<>> THEN st
    ELSE LET href == Head(links).href
             link_text == str_lower(link_get_text(Head(links)))
         IN  IF link_qualifies(href, link_text)
             THEN resolve_link(st, href)
             ELSE scan_links(Tail(links), st)

\* for cell in cells (361-382): every cell is visited; the break at 382 leaves the inner loop only
RECURSIVE scan_cells(_, _)
scan_cells(cells, st) ==
    IF cells = <<>> \/ st.exc # None THEN st
    ELSE scan_cells(Tail(cells), scan_links(Head(cells).links, st))

\* a faulty extraction that keeps the letter case of the suffix
extract_case_status_as_is(case_number_cell) ==
    IF str_in(<<"[">>, case_number_cell) /\ str_in(<<"]">>, case_number_cell)
    THEN LET last == str_from(case_number_cell, str_rfind(case_number_cell, "[") + 1)
         IN  IF str_find(last, "]") < 0 THEN last ELSE str_head(last, str_find(last, "]"))
    ELSE s_ACTIVE

\* src/app.py:385-390
extract_case_status(case_number_cell) ==
    IF str_in(<<"[">>, case_number_cell) /\ str_in(<<"]">>, case_number_cell)
    THEN LET last == str_from(case_number_cell, str_rfind(case_number_cell, "[") + 1)
             status_match == IF str_find(last, "]") < 0 THEN last
                             ELSE str_head(last, str_find(last, "]"))
         IN  str_upper(status_match)
    ELSE s_ACTIVE

\* src/app.py:355-357
found_row(cells, st) ==
    [st EXCEPT !.data = dict_set(dict_set(dict_set(@,
                            "parties", get_text(cells[3])),
                            "next_hearing_date", get_text(cells[4])),
                            "status", "Found")]

\* src/app.py:384-390, reached unless the link scan raised
set_case_status(cells, linked) ==
    IF linked.exc # None THEN linked
    ELSE [linked EXCEPT !.data =
             dict_set(@, "case_status", extract_case_status(get_text(cells[2])))]

\* the body of `if case_number_cell and parties_cell:` (355-391)
take_row(cells, st) == set_case_status(cells, scan_cells(cells, found_row(cells, st)))

\* `if len(cells) >= 4` and `if case_number_cell and parties_cell`
row_matches(cells) ==
    Len(cells) >= 4 /\ get_text(cells[2]) # <<>> /\ get_text(cells[3]) # <<>>

\* a faulty loop that goes on after a matching row
RECURSIVE primary_rows_all(_, _)
primary_rows_all(rows, st) ==
    IF rows = <<>> THEN st
    ELSE IF row_matches(find_all_td(Head(rows)))
    THEN primary_rows_all(Tail(rows), take_row(find_all_td(Head(rows)), st))
    ELSE primary_rows_all(Tail(rows), st)

\* for row in rows (345-391): the first matching row is taken and the loop left
RECURSIVE primary_rows(_, _)
primary_rows(rows, st) ==
    IF rows = <<>> THEN st
    ELSE IF row_matches(find_all_td(Head(rows))) THEN take_row(find_all_td(Head(rows)), st)
    ELSE primary_rows(Tail(rows), st)

\* soup.find('table', {'id': 'caseTable'}) and its tbody (335-395)
primary_lookup(page, st) ==
    LET hits == {i \in DOMAIN page.tables : page.tables[i].id = s_caseTable}
    IN  IF hits = {} THEN st
        ELSE LET case_table == page.tables[CHOOSE i \in hits : \A k \in hits : i <= k]
             IN  IF case_table.tbody THEN primary_rows(case_table.body, st) ELSE st

\* for link in links (419-423)
RECURSIVE fallback_links(_, _)
fallback_links(links, st) ==
    IF links = <<>> THEN st
    ELSE LET href == Head(links).href
         IN  IF Truthy(href) /\ str_in(s_pdf, str_lower(href))
             THEN IF urljoin_raises(href) THEN [st EXCEPT !.exc = s_invalid_ipv6]
                  ELSE [st EXCEPT !.data =
                           dict_set(@, "order_judgment_link", urljoin(base_url, href))]
             ELSE fallback_links(Tail(links), st)

\* a faulty chain that takes the value of any other label for the parties
labelled_row_any(header, value, links, st) ==
    IF str_in(s_filing, header) \/ str_in(s_registration, header)
    THEN [st EXCEPT !.data = dict_set(@, "filing_date", value)]
    ELSE IF str_in(s_listing, header) \/ str_in(s_hearing, header)
    THEN [st EXCEPT !.data = dict_set(@, "next_hearing_date", value)]
    ELSE IF str_in(s_order, header) \/ str_in(s_judgment, header)
    THEN fallback_links(links, st)
    ELSE [st EXCEPT !.data = dict_set(@, "parties", value)]

\* the if/elif chain on the label (409-423)
labelled_row(header, value, links, st) ==
    IF str_in(s_petitioner, header) \/ str_in(s_respondent, header)
    THEN [st EXCEPT !.data = dict_set(@, "parties", value)]
    ELSE IF str_in(s_filing, header) \/ str_in(s_registration, header)
    THEN [st EXCEPT !.data = dict_set(@, "filing_date", value)]
    ELSE IF str_in(s_listing, header) \/ str_in(s_hearing, header)
    THEN [st EXCEPT !.data = dict_set(@, "next_hearing_date", value)]
    ELSE IF str_in(s_order, header) \/ str_in(s_judgment, header)
    THEN fallback_links(links, st)
    ELSE st

\* the body of `for row in rows` in the fallback (404-423); cells are the td and th of the row
fallback_row(cells, st) ==
    IF Len(cells) < 2 THEN st
    ELSE labelled_row(str_lower(get_text(cells[1])), get_text(cells[2]), cells[2].links, st)

RECURSIVE fallback_rows(_, _)
fallback_rows(rows, st) ==
    IF rows = <<>> \/ st.exc # None THEN st
    ELSE fallback_rows(Tail(rows), fallback_row(Head(rows), st))

\* for table in tables (401-423)
RECURSIVE fallback_tables(_, _)
fallback_tables(tables, st) ==
    IF tables = <<>> \/ st.exc # None THEN st
    ELSE fallback_tables(Tail(tables), fallback_rows(find_all_tr(Head(tables)), st))

\* a faulty promote that sets "Found" whatever was captured
promote_always(scanned) ==
    IF scanned.exc = None
    THEN [scanned EXCEPT !.data = dict_set(@, "status", "Found")]
    ELSE scanned

\* src/app.py:425-426
promote(scanned) ==
    IF scanned.exc = None /\ Truthy(scanned.data["parties"])
    THEN [scanned EXCEPT !.data = dict_set(@, "status", "Found")]
    ELSE scanned

\* a faulty scan that runs whatever the primary lookup left
fallback_scan_always(page, st) ==
    IF st.exc = None
    THEN promote(fallback_tables(page.tables, st))
    ELSE st

\* src/app.py:397-426: the fallback runs when the primary lookup left "Not Found"
fallback_scan(page, st) ==
    IF st.exc = None /\ st.data["status"] = "Not Found"
    THEN promote(fallback_tables(page.tables, st))
    ELSE st

\* src/app.py:325-331
new_case_data ==
    [parties |-> <<>>, filing_date |-> <<>>, next_hearing_date |-> <<>>,
     order_judgment_link |-> <<>>, status |-> "Not Found"]

\* a faulty except branch that returns a fresh result with the error
parse_return_fresh(st) == IF st.exc # None THEN dict_set(new_case_data, "error", st.exc) ELSE st.data

\* src/app.py:428-432
parse_return(st) == IF st.exc # None THEN dict_set(st.data, "error", st.exc) ELSE st.data

parse_case_data(page) ==
    parse_return(fallback_scan(page, primary_lookup(page, [data |-> new_case_data, exc |-> None])))

---------------------------------------------------------------------------
(* What the browser, the court site and the network do during one request  *)
(* is the record env:                                                      *)
(*   setup   managed, system: whether webdriver.Chrome starts with the     *)
(*           auto-provisioned / the system driver; inject: whether         *)
(*           execute_script succeeds                                       *)
(*   nav     whether driver.get and the wait for #case_type succeed        *)
(*   form    "ok", or the form field whose step raises                     *)
(*   captcha fault: "ok" or the CAPTCHA step that raises; displayed: the   *)
(*           text of #captcha-code; randomid: the value of #randomid       *)
(*   submit  click, enter: whether the click / the Enter key succeed;      *)
(*           alerts: the .swal2-popup elements after the click             *)
(*   result  source: whether driver.page_source can be read; alerts: the   *)
(*           .swal2-popup elements then; page: the rendered page           *)
(* An alert is [displayed |-> "yes" | "no" | "stale", text |-> ...];       *)
(* is_displayed() raises on a stale element.                               *)
(* A step's outcome is [returned, value, events, typed, seen, alerts]:     *)
(* whether it left scrape_case_data with a return, the dict returned, the  *)
(* calls it made, the values it typed into #captchaInput, the text it read *)
(* from #captcha-code (None: not read) and the element lists its           *)
(* find_elements calls for the alert boxes returned.                       *)

\* a step that returns `value` from scrape_case_data
done(value, events) ==
    [returned |-> TRUE, value |-> value, events |-> events, typed |-> <<>>, seen |-> None,
     alerts |-> <<>>]

\* a step after which the run goes on
go_on(events) ==
    [returned |-> FALSE, value |-> <<>>, events |-> events, typed |-> <<>>, seen |-> None,
     alerts |-> <<>>]

\* `second` after `first`, unless `first` returned
then(first, second) ==
    IF first.returned THEN first
    ELSE [returned |-> second.returned,
          value |-> second.value,
          events |-> first.events \o second.events,
          typed |-> first.typed \o second.typed,
          seen |-> IF first.seen # None THEN first.seen ELSE second.seen,
          alerts |-> first.alerts \o second.alerts]

\* the HTML of a page, each tag abbreviated to its name
RECURSIVE links_source(_)
links_source(links) ==
    IF links = <<>> THEN <<>>
    ELSE <<"<", "a", " ">> \o (IF Head(links).href = None THEN <<>> ELSE Head(links).href)
         \o <<">">> \o Head(links).text \o links_source(Tail(links))

RECURSIVE cells_source(_)
cells_source(cells) ==
    IF cells = <<>> THEN <<>>
    ELSE (IF Head(cells).tag = "td" THEN <<"<", "t", "d", ">">> ELSE <<"<", "t", "h", ">">>)
         \o Head(cells).text
         \o links_source(Head(cells).links) \o cells_source(Tail(cells))

RECURSIVE rows_source(_)
rows_source(rows) ==
    IF rows = <<>> THEN <<>>
    ELSE <<"<", "t", "r", ">">> \o cells_source(Head(rows)) \o rows_source(Tail(rows))

RECURSIVE tables_source(_)
tables_source(tables) ==
    IF tables = <<>> THEN <<>>
    ELSE <<"<", "t", "a", "b", "l", "e", " ">> \o Head(tables).id \o <<">">>
         \o rows_source(Head(tables).head)
         \o (IF Head(tables).tbody
             THEN <<"<", "t", "b", "o", "d", "y", ">">> \o rows_source(Head(tables).body)
             ELSE <<>>)
         \o tables_source(Tail(tables))

\* driver.page_source
page_source_of(page) == page.text \o tables_source(page.tables)

\* a faulty setup that does not fall back to the system driver
setup_driver_managed_only(e) ==
    IF e.managed
    THEN [driver |-> e.inject, events |-> <<"launch_managed", "session", "execute_script">>]
    ELSE [driver |-> FALSE, events |-> <<"launch_managed">>]

\* CourtDataScraper.setup_driver: [driver |-> whether a driver is returned, events]
setup_driver(e) ==
    LET launch == IF e.managed THEN <<"launch_managed", "session">>
                  ELSE IF e.system THEN <<"launch_managed", "launch_system", "session">>
                  ELSE <<"launch_managed", "launch_system">>
    IN  IF ~(e.managed \/ e.system) THEN [driver |-> FALSE, events |-> launch]
        ELSE [driver |-> e.inject, events |-> launch \o <<"execute_script">>]

\* a faulty choice that prefers a readable displayed code to the caller's token
captcha_choice_displayed_first(captcha_token, displayed_captcha) ==
    IF Truthy(displayed_captcha) /\ str_isdigit(displayed_captcha) THEN displayed_captcha
    ELSE IF Truthy(captcha_token) THEN captcha_token
    ELSE None

\* the text sent to #captchaInput, None when none is (153-165)
captcha_choice(captcha_token, displayed_captcha) ==
    IF Truthy(captcha_token) THEN captcha_token
    ELSE IF Truthy(displayed_captcha) /\ str_isdigit(displayed_captcha) THEN displayed_captcha
    ELSE None

\* a faulty result that leaves the validation key out
captcha_required_bare(displayed_captcha, randomid_value) ==
    [error |-> s_captcha_required,
     status |-> "CAPTCHA Required",
     displayed_captcha |-> displayed_captcha]

\* src/app.py:166-171
captcha_required(displayed_captcha, randomid_value) ==
    [error |-> s_captcha_required,
     status |-> "CAPTCHA Required",
     displayed_captcha |-> displayed_captcha,
     randomid |-> randomid_value]

\* `except Exception as captcha_error` (173-178)
captcha_error ==
    [error |-> s_captcha_unhandled \o exception_text, status |-> "CAPTCHA Required"]

\* src/app.py:130-178
captcha_step(captcha_token, c) ==
    IF c.fault \in {"wait", "find"} THEN done(captcha_error, <<>>)
    ELSE IF captcha_choice(captcha_token, str_strip(c.displayed)) = None
    THEN [done(captcha_required(str_strip(c.displayed), c.randomid), <<"clear_captcha">>)
          EXCEPT !.seen = c.displayed]
    ELSE IF c.fault = "send_keys"
    THEN [done(captcha_error, <<"clear_captcha">>) EXCEPT !.seen = c.displayed]
    ELSE [go_on(<<"clear_captcha", "type_captcha">>)
          EXCEPT !.typed = <<captcha_choice(captcha_token, str_strip(c.displayed))>>,
                 !.seen = c.displayed]

\* `if swal_error and swal_error[0].is_displayed()` and the test of its text (198-201);
\* a stale element raises into the bare `except: pass`
first_alert_wrong(alerts) ==
    /\ alerts # <<>>
    /\ alerts[1].displayed = "yes"
    /\ \/ str_in(s_CAPTCHA_is_incorrect, alerts[1].text)
       \/ str_in(s_incorrect, str_lower(alerts[1].text))

\* src/app.py:181-234
submit_step(s) ==
    IF s.click
    THEN IF first_alert_wrong(s.alerts)
         THEN [done([error |-> s_captcha_failed_early,
                     status |-> "CAPTCHA Failed",
                     details |-> s.alerts[1].text], <<"click_search">>)
               EXCEPT !.alerts = <<s.alerts>>]
         ELSE [go_on(<<"click_search">>) EXCEPT !.alerts = <<s.alerts>>]
    ELSE IF s.enter THEN go_on(<<"press_enter">>)
    ELSE go_on(<<>>)

\* `except Exception as form_error` (236-238)
form_error(events) ==
    done([error |-> s_could_not_fill \o exception_text, status |-> "Error"], events)

\* src/app.py:107-238
fill_form(captcha_token, env) ==
    IF env.form = "case_type" THEN form_error(<<>>)
    ELSE IF env.form = "case_number" THEN form_error(<<"select_case_type">>)
    ELSE IF env.form = "case_year" THEN form_error(<<"select_case_type", "type_case_number">>)
    ELSE then(go_on(<<"select_case_type", "type_case_number", "select_case_year">>),
              then(captcha_step(captcha_token, env.captcha), submit_step(env.submit)))

\* for swal in swal_elements (254-269)
RECURSIVE captcha_alert(_)
captcha_alert(alerts) ==
    IF alerts = <<>> THEN FALSE
    ELSE IF Head(alerts).displayed = "stale" THEN FALSE
    ELSE IF /\ Head(alerts).displayed = "yes"
            /\ \/ str_in(s_captcha_is_incorrect, str_lower(Head(alerts).text))
               \/ str_in(s_incorrect, str_lower(Head(alerts).text))
    THEN TRUE
    ELSE captcha_alert(Tail(alerts))

\* src/app.py:284-290
validation_errors(page_source) ==
    (IF str_in(s_case_type_required, str_lower(page_source)) THEN <<s_Case_Type>> ELSE <<>>)
    \o (IF str_in(s_case_number_required, str_lower(page_source)) THEN <<s_Case_Number>> ELSE <<>>)
    \o (IF str_in(s_year_required, str_lower(page_source)) THEN <<s_Year>> ELSE <<>>)

\* src/app.py:310-312
no_case_error(case_data) ==
    IF case_data["status"] = "Not Found"
    THEN dict_set(case_data, "error", s_no_case_found)
    ELSE case_data

\* src/app.py:301-314
parsed_result(case_type, case_number, case_year, page) ==
    no_case_error(dict_set(dict_set(dict_set(dict_set(parse_case_data(page),
                      "raw_response", page_source_of(page)),
                      "case_type", case_type),
                      "case_number", case_number),
                      "case_year", case_year))

\* the calls of the parse: parse_error is the logger.error of its except branch (428-430)
parse_events(case_data) ==
    IF "error" \in DOMAIN case_data
    THEN <<"page_source", "parse_case_data", "parse_error">>
    ELSE <<"page_source", "parse_case_data">>

\* src/app.py:252-314
inspect_page(case_type, case_number, case_year, r, page_source) ==
    IF captcha_alert(r.alerts)
    THEN [done([error |-> s_captcha_failed_late,
                status |-> "CAPTCHA Failed",
                raw_response |-> str_head(page_source, 1500)], <<"page_source">>)
          EXCEPT !.alerts = <<r.alerts>>]
    ELSE IF /\ str_in(s_field_is_required, str_lower(page_source))
            /\ validation_errors(page_source) # <<>>
    THEN [done([error |-> s_validation_failed
                            \o str_join(s_comma_space, validation_errors(page_source)),
                status |-> "Validation Error",
                raw_response |-> str_head(page_source, 1000)], <<"page_source">>)
          EXCEPT !.alerts = <<r.alerts>>]
    ELSE [done(parsed_result(case_type, case_number, case_year, r.page),
               parse_events(parse_case_data(r.page)))
          EXCEPT !.alerts = <<r.alerts>>]

\* src/app.py:241-314; reading driver.page_source may raise into `except Exception as e` (316)
read_results(case_type, case_number, case_year, r) ==
    IF ~r.source THEN done([error |-> exception_text], <<>>)
    ELSE inspect_page(case_type, case_number, case_year, r, page_source_of(r.page))

\* the try block of scrape_case_data (96-318)
try_block(case_type, case_number, case_year, captcha_token, env) ==
    IF ~env.nav THEN done([error |-> exception_text], <<"get">>)
    ELSE then(go_on(<<"get">>),
              then(fill_form(captcha_token, env),
                   read_results(case_type, case_number, case_year, env.result)))

\* `if not driver` (93-94), else the try block and `finally: driver.quit()` (319-320)
with_driver(setup, block) ==
    IF ~setup.driver
    THEN [result |-> [error |-> s_init_failed], events |-> setup.events,
          typed |-> <<>>, seen |-> None, alerts |-> <<>>]
    ELSE [result |-> block.value,
          events |-> setup.events \o block.events \o <<"quit">>,
          typed |-> block.typed, seen |-> block.seen, alerts |-> block.alerts]

\* CourtDataScraper.scrape_case_data: [result, events, typed, seen, alerts]
scrape_case_data(case_type, case_number, case_year, captcha_token, env) ==
    with_driver(setup_driver(env.setup),
                try_block(case_type, case_number, case_year, captcha_token, env))

---------------------------------------------------------------------------
(* Bounds, and the requests, pages and browser behaviours that are tried *)

MaxSearches == 2

MaxClock == 1

\* "No data found"
txt_no_data == <<"N","o"," ","d","a","t","a"," ","f","o","u","n","d">>
\* "This field is required"
txt_static_required == <<"T","h","i","s"," ","f","i","e","l","d"," ","i","s"," ","r","e","q",
    "u","i","r","e","d">>
\* "year.*required: this field is required"
txt_year_required == <<"y","e","a","r",".","*","r","e","q","u","i","r","e","d",":"," ","t","h",
    "i","s"," ","f","i","e","l","d"," ","i","s"," ","r","e","q","u","i","r","e","d">>
\* "WP 7/24 [pending]"
txt_case_no == <<"W","P"," ","7","/","2","4"," ","[","p","e","n","d","i","n","g","]">>
\* "A vs B"
txt_parties == <<"A"," ","v","s"," ","B">>
\* "12-May"
txt_date == <<"1","2","-","M","a","y">>
\* "View"
txt_view == <<"V","i","e","w">>
\* "order1.pdf"
txt_order1 == <<"o","r","d","e","r","1",".","p","d","f">>
\* "Petitioner"
txt_Petitioner == <<"P","e","t","i","t","i","o","n","e","r">>
\* "Order"
txt_Order == <<"O","r","d","e","r">>
\* "//[x.pdf"
txt_bad_pdf == <<"/","/","[","x",".","p","d","f">>
\* "CAPTCHA is Incorrect"
txt_wrong == <<"C","A","P","T","C","H","A"," ","i","s"," ","I","n","c","o","r","r","e","c","t">>
\* "Notice"
txt_notice == <<"N","o","t","i","c","e">>
\* "http://x/a.pdf"
txt_pdf_url == <<"h","t","t","p",":","/","/","x","/","a",".","p","d","f">>

td(text, links) == [tag |-> "td", text |-> text, links |-> links]

th(text) == [tag |-> "th", text |-> text, links |-> <<>>]

\* no table at all
PageNoData == [text |-> txt_no_data, tables |-> <<>>]

\* a results table with one valid row
PageCase ==
    [text |-> <<>>,
     tables |-> << [id |-> s_caseTable, head |-> << <<th(txt_notice), th(txt_Order)>> >>,
                    tbody |-> TRUE,
                    body |-> << << td(<<"1">>, <<>>), td(txt_case_no, <<>>), td(txt_parties, <<>>),
                                   td(txt_date, <<>>),
                                   td(<<>>, <<[href |-> txt_order1, text |-> txt_view]>>) >> >>] >>]

\* labelled rows only; the href of the order row cannot be joined to the base
PageLabels ==
    [text |-> <<>>,
     tables |-> << [id |-> <<>>, head |-> << <<th(txt_Petitioner), td(txt_parties, <<>>)>>,
                                             <<th(txt_Order),
                                               td(<<>>, <<[href |-> txt_bad_pdf, text |-> txt_view]>>)>> >>,
                    tbody |-> FALSE, body |-> <<>>] >>]

\* the phrase "field is required" as static text
PageStaticRequired == [text |-> txt_static_required, tables |-> <<>>]

\* the phrase together with the literal text "year.*required"
PageYearRequired == [text |-> txt_year_required, tables |-> <<>>]

Pages == {PageNoData, PageCase, PageLabels, PageStaticRequired, PageYearRequired}

AlertWrong == [displayed |-> "yes", text |-> txt_wrong]

AlertNotice == [displayed |-> "yes", text |-> txt_notice]

AlertStale == [displayed |-> "stale", text |-> txt_wrong]

AlertHidden == [displayed |-> "no", text |-> txt_wrong]

SetupEnvs == [managed : BOOLEAN, system : BOOLEAN, inject : BOOLEAN]

CaptchaEnvs ==
    [fault : {"ok", "wait", "find", "send_keys"},
     displayed : {<<>>, <<" ", "4", "2", "\n">>, <<"4", "x">>},
     randomid : {None, <<"r", "9">>}]

SubmitEnvs ==
    [click : BOOLEAN, enter : BOOLEAN, alerts : {<<>>, <<AlertWrong>>, <<AlertHidden, AlertWrong>>}]

\* a run in which everything works and the site shows nothing
Calm ==
    [setup |-> [managed |-> TRUE, system |-> TRUE, inject |-> TRUE],
     nav |-> TRUE,
     form |-> "ok",
     captcha |-> [fault |-> "ok", displayed |-> <<" ", "4", "2", "\n">>, randomid |-> <<"r", "9">>],
     submit |-> [click |-> TRUE, enter |-> TRUE, alerts |-> <<>>],
     result |-> [source |-> TRUE, alerts |-> <<>>, page |-> PageNoData]]

\* what the results stage can meet: an unreadable page, each page without an alert,
\* and the alerts over the page without data
ResultEnvs ==
    {[Calm.result EXCEPT !.source = FALSE]}
    \cup {[Calm.result EXCEPT !.page = p] : p \in Pages}
    \cup {[Calm.result EXCEPT !.alerts = a] :
            a \in {<<AlertNotice, AlertWrong>>, <<AlertStale, AlertWrong>>}}

\* The environments tried: each stage of the run varies over all its behaviours, and
\* so do all the stages before it that it depends on; the stages after it stay calm.
Envs ==
    {[Calm EXCEPT !.setup = s, !.nav = n, !.form = f] :
        s \in SetupEnvs, n \in BOOLEAN, f \in {"ok", "case_type", "case_number", "case_year"}}
    \cup {[Calm EXCEPT !.setup = s, !.captcha = c] : s \in SetupEnvs, c \in CaptchaEnvs}
    \cup {[Calm EXCEPT !.setup = s, !.captcha.displayed = d, !.submit = b, !.result = r] :
            s \in {x \in SetupEnvs : x.system /\ x.inject},
            d \in {<<" ", "4", "2", "\n">>, <<"4", "x">>},
            b \in SubmitEnvs, r \in ResultEnvs}

Fields == {None, <<>>}

\* request.form of POST /search; a CAPTCHA token comes with a complete form
Forms ==
    {f \in [case_type : Fields \cup {<<"W", "P">>},
            case_number : Fields \cup {<<"7">>, <<"8">>},
            case_year : Fields \cup {<<"2", "4">>},
            captcha_token : Fields \cup {<<"a", "b">>}] :
        \/ f.captcha_token = None
        \/ Truthy(f.case_type) /\ Truthy(f.case_number) /\ Truthy(f.case_year)}

\* request.args.get('url') of GET /download_pdf
Urls == Fields \cup {txt_pdf_url}

---------------------------------------------------------------------------
(* The table `queries` and the routes *)

\* LIMIT 50
HistoryLimit == 50

\* a faulty default, the one search_case logs (491)
record_status_unknown(case_data) == dict_get(case_data, "status", "Unknown")

\* case_data.get('status', 'Error')
record_status(case_data) == dict_get(case_data, "status", "Error")

\* a faulty INSERT OR REPLACE that keeps one row for each case
save_query_to_db_replacing(rows, timestamp, case_type, case_number, case_year, case_data) ==
    Append(SelectSeq(rows, LAMBDA r : r.case_number # case_number),
           [id |-> Len(rows) + 1,
            case_type |-> case_type,
            case_number |-> case_number,
            case_year |-> case_year,
            query_timestamp |-> timestamp,
            raw_response |-> dict_get(case_data, "raw_response", <<>>),
            parties |-> dict_get(case_data, "parties", <<>>),
            filing_date |-> dict_get(case_data, "filing_date", <<>>),
            next_hearing_date |-> dict_get(case_data, "next_hearing_date", <<>>),
            order_judgment_link |-> dict_get(case_data, "order_judgment_link", <<>>),
            status |-> dict_get(case_data, "status", "Error")])

\* save_query_to_db: the INSERT, with the id and the timestamp SQLite assigns
save_query_to_db(rows, timestamp, case_type, case_number, case_year, case_data) ==
    Append(rows,
           [id |-> Len(rows) + 1,
            case_type |-> case_type,
            case_number |-> case_number,
            case_year |-> case_year,
            query_timestamp |-> timestamp,
            raw_response |-> dict_get(case_data, "raw_response", <<>>),
            parties |-> dict_get(case_data, "parties", <<>>),
            filing_date |-> dict_get(case_data, "filing_date", <<>>),
            next_hearing_date |-> dict_get(case_data, "next_hearing_date", <<>>),
            order_judgment_link |-> dict_get(case_data, "order_judgment_link", <<>>),
            status |-> record_status(case_data)])

\* a faulty test that forgets the year
all_fields_but_year(form) ==
    Truthy(form.case_type) /\ Truthy(form.case_number)

\* `if not all([case_type, case_number, case_year])`
all_fields(form) ==
    Truthy(form.case_type) /\ Truthy(form.case_number) /\ Truthy(form.case_year)

\* `return jsonify({"error": "All fields are required"})` (478-480)
rejected(form) ==
    [op |-> "search", form |-> form, http |-> 200, body |-> [error |-> s_all_required],
     saved |-> FALSE, events |-> <<>>, typed |-> <<>>, seen |-> None, alerts |-> <<>>]

\* a faulty handler that records only the results that carry a status
answered_unrecorded(form, scraped) ==
    [op |-> "search", form |-> form, http |-> 200, body |-> scraped.result,
     saved |-> "status" \in DOMAIN scraped.result, events |-> scraped.events,
     typed |-> scraped.typed, seen |-> scraped.seen, alerts |-> scraped.alerts]

\* `return jsonify(case_data)` (492), after save_query_to_db(..., case_data)
answered(form, scraped) ==
    [op |-> "search", form |-> form, http |-> 200, body |-> scraped.result,
     saved |-> TRUE, events |-> scraped.events, typed |-> scraped.typed,
     seen |-> scraped.seen, alerts |-> scraped.alerts]

\* search_case up to its response: the exchange, with saved telling whether
\* save_query_to_db is called with the body, and events, typed, seen and alerts
\* what scrape_case_data did and met
search_response(form, env) ==
    IF ~all_fields(form) THEN rejected(form)
    ELSE answered(form, scrape_case_data(form.case_type, form.case_number, form.case_year,
                                         form.captcha_token, env))

\* every exchange POST /search can end in
SearchExchanges ==
    {search_response(form, Calm) : form \in {f \in Forms : ~all_fields(f)}}
    \cup {search_response(form, env) : form \in {f \in Forms : all_fields(f)}, env \in Envs}

\* a faulty download_pdf that tests the url against None only
download_response_fetching(pdf_url, net, send) ==
    LET answer(body, ev) == [op |-> "download_pdf", url |-> pdf_url, http |-> 200,
                             body |-> body, events |-> ev]
    IN  IF pdf_url = None THEN answer([error |-> s_pdf_not_provided], <<>>)
        ELSE IF net = "raises" THEN answer([error |-> exception_text], <<"requests_get">>)
        ELSE IF net # "200" THEN answer([error |-> s_pdf_failed], <<"requests_get">>)
        ELSE IF send = "raises"
        THEN answer([error |-> exception_text], <<"requests_get", "send_file">>)
        ELSE answer([attachment |-> pdf_url], <<"requests_get", "send_file">>)

\* download_pdf: net is what requests.get does, send what send_file does with the bytes
download_response(pdf_url, net, send) ==
    LET answer(body, ev) == [op |-> "download_pdf", url |-> pdf_url, http |-> 200,
                             body |-> body, events |-> ev]
    IN  IF ~Truthy(pdf_url) THEN answer([error |-> s_pdf_not_provided], <<>>)
        ELSE IF net = "raises" THEN answer([error |-> exception_text], <<"requests_get">>)
        ELSE IF net # "200" THEN answer([error |-> s_pdf_failed], <<"requests_get">>)
        ELSE IF send = "raises"
        THEN answer([error |-> exception_text], <<"requests_get", "send_file">>)
        ELSE answer([attachment |-> pdf_url], <<"requests_get", "send_file">>)

\* ORDER BY query_timestamp DESC LIMIT 50: the rowids in an order the query may return.
\* Rows of equal query_timestamp come in an order SQL leaves open.
history_orders(rows) ==
    LET n == Len(rows)
        k == IF n < HistoryLimit THEN n ELSE HistoryLimit
        sorted == {p \in [1..n -> 1..n] :
                      /\ \A i, j \in 1..n : i # j => p[i] # p[j]
                      /\ \A i, j \in 1..n :
                            i < j => rows[p[i]].query_timestamp >= rows[p[j]].query_timestamp}
    IN  {[i \in 1..k |-> p[i]] : p \in sorted}

\* query_history: the JSON list for the rows in the order `rowids`
history_response(rows, rowids) ==
    [op |-> "history", http |-> 200, rowids |-> rowids,
     body |-> [i \in 1..Len(rowids) |->
                  [case_type |-> rows[rowids[i]].case_type,
                   case_number |-> rows[rowids[i]].case_number,
                   case_year |-> rows[rowids[i]].case_year,
                   timestamp |-> rows[rowids[i]].query_timestamp,
                   status |-> rows[rowids[i]].status]]]

\* a request that passed the input validation of search_case: all three fields
\* present and non-empty (478)
validated(form) ==
    /\ form.case_type \notin {None, <<>>}
    /\ form.case_number \notin {None, <<>>}
    /\ form.case_year \notin {None, <<>>}

\* the case a search asks for
sought(form) ==
    [case_type |-> form.case_type, case_number |-> form.case_number,
     case_year |-> form.case_year]

Idle == [op |-> "idle"]

Init ==
    /\ store = <<>>
    /\ submitted = <<>>
    /\ now = 0
    /\ exchange = Idle
    /\ soup = None
    /\ result = <<>>

\* GET /
index ==
    /\ exchange = Idle
    /\ exchange' = [op |-> "index", http |-> 200]
    /\ UNCHANGED <<store, submitted, now, soup, result>>

\* POST /search
search_case ==
    /\ exchange = Idle
    /\ \E x \in SearchExchanges :
          /\ x.saved => Len(store) < MaxSearches
          /\ exchange' = x
          /\ store' = IF x.saved
                      THEN save_query_to_db(store, now, x.form.case_type, x.form.case_number,
                                            x.form.case_year, x.body)
                      ELSE store
          /\ submitted' = IF validated(x.form)
                          THEN Append(submitted, sought(x.form))
                          ELSE submitted
    /\ UNCHANGED <<now, soup, result>>

\* GET /download_pdf
download_pdf ==
    /\ exchange = Idle
    /\ \E pdf_url \in Urls, net \in {"raises", "200", "404"}, send \in {"sent", "raises"} :
          exchange' = download_response(pdf_url, net, send)
    /\ UNCHANGED <<store, submitted, now, soup, result>>

\* GET /history
query_history ==
    /\ exchange = Idle
    /\ \E rowids \in history_orders(store) : exchange' = history_response(store, rowids)
    /\ UNCHANGED <<store, submitted, now, soup, result>>

\* the response has gone out; the next request can be taken
Responded ==
    /\ exchange # Idle
    /\ exchange' = Idle
    /\ UNCHANGED <<store, submitted, now, soup, result>>

\* a second passes
Tick ==
    /\ exchange = Idle
    /\ now < MaxClock
    /\ now' = now + 1
    /\ UNCHANGED <<store, submitted, exchange, soup, result>>

Next == index \/ search_case \/ download_pdf \/ query_history \/ Responded \/ Tick

Spec == Init /\ [][Next]_vars
\* "WP 8/24"
txt_case_no2 == <<"W","P"," ","8","/","2","4">>
\* "C vs D"
txt_parties2 == <<"C"," ","v","s"," ","D">>
\* "httpd/o.pdf"
txt_http_rel == <<"h","t","t","p","d","/","o",".","p","d","f">>
\* "//x.in/o.pdf"
txt_scheme_rel == <<"/","/","x",".","i","n","/","o",".","p","d","f">>
\* "about"
txt_about == <<"a","b","o","u","t">>
\* "Info"
txt_Info == <<"I","n","f","o">>
\* "Respondent"
txt_Respondent == <<"R","e","s","p","o","n","d","e","n","t">>
\* "Filing Date"
txt_Filing == <<"F","i","l","i","n","g"," ","D","a","t","e">>
\* "Next Hearing"
txt_Hearing == <<"N","e","x","t"," ","H","e","a","r","i","n","g">>
\* "Remarks"
txt_Remarks == <<"R","e","m","a","r","k","s">>
\* "W.P.(C) 123/2024 [PENDING]"
eg_case_no == <<"W",".","P",".","(","C",")"," ","1","2","3","/","2","0","2","4"," ","[","P","E",
    "N","D","I","N","G","]">>
\* "John Doe vs State"
eg_parties == <<"J","o","h","n"," ","D","o","e"," ","v","s"," ","S","t","a","t","e">>
\* "12-May-2025"
eg_date == <<"1","2","-","M","a","y","-","2","0","2","5">>
\* "PENDING"
eg_PENDING == <<"P","E","N","D","I","N","G">>
\* "https://delhihighcourt.nic.in/order1.pdf"
eg_link == <<"h","t","t","p","s",":","/","/","d","e","l","h","i","h","i","g","h","c","o","u",
    "r","t",".","n","i","c",".","i","n","/","o","r","d","e","r","1",".","p","d","f">>

---------------------------------------------------------------------------
(* parse_case_data on its own: the pages it is given and the call *)

\* the rows of a table, and the links of a page, are at most this many
MaxRows == 2

link(href, text) == [href |-> href, text |-> text]

\* the links of the link cells of a data row
FirstLinks ==
    {<<>>,
     <<link(txt_order1, txt_view)>>,
     <<link(txt_http_rel, txt_view)>>,
     <<link(txt_scheme_rel, txt_view)>>,
     <<link(txt_pdf_url, txt_view)>>,
     <<link(txt_bad_pdf, txt_view)>>,
     <<link(None, txt_view), link(txt_about, txt_Info), link(txt_order1, txt_Info)>>,
     <<link(txt_order1, txt_Info), link(txt_pdf_url, txt_Info)>>}

LaterLinks == {<<>>, <<link(txt_pdf_url, txt_view)>>}

\* rows of the results table: serial number, case number, parties, date, link cells
DataRows ==
    {<<td(<<"1">>, <<>>), td(txt_case_no, <<>>), td(txt_parties, <<>>), td(txt_date, <<>>),
       td(<<>>, first), td(<<>>, later)>> : first \in FirstLinks, later \in LaterLinks}
    \cup {<<td(<<"2">>, <<>>), td(txt_case_no2, <<>>), td(txt_parties2, <<>>), td(<<>>, <<>>)>>}

\* rows that are no data rows: three cells, blank parties, a header cell in front
OtherRows ==
    {<<td(txt_case_no, <<>>), td(txt_parties, <<>>), td(txt_date, <<>>)>>,
     <<td(<<"1">>, <<>>), td(txt_case_no, <<>>), td(<<" ", "\n">>, <<>>), td(txt_date, <<>>)>>,
     <<th(<<"1">>), td(txt_case_no, <<>>), td(txt_parties, <<>>), td(txt_date, <<>>)>>}

\* rows of a label and a value
LabelRows ==
    {<<th(txt_Petitioner), td(txt_parties, <<>>)>>,
     <<th(txt_Respondent), td(txt_parties2, <<>>)>>,
     <<th(txt_Petitioner), td(<<" ">>, <<>>)>>,
     <<th(txt_Filing), td(txt_date, <<>>)>>,
     <<td(txt_Hearing, <<>>), td(txt_date, <<>>)>>,
     <<th(txt_Order), td(<<>>, <<link(txt_about, txt_view), link(txt_order1, txt_view)>>)>>,
     <<th(txt_Order), td(<<>>, <<link(txt_bad_pdf, txt_view)>>)>>,
     <<th(txt_Remarks), td(txt_parties, <<>>)>>,
     <<th(txt_Petitioner)>>,
     <<th(txt_Petitioner \o <<" ">> \o txt_Filing), td(eg_date, <<>>)>>,
     <<td(txt_Hearing, <<>>), td(eg_date, <<>>)>>,
     <<th(txt_Order), td(txt_Info, <<link(txt_about, txt_view)>>)>>}

RowPool == DataRows \cup OtherRows \cup LabelRows

RowSeqs == UNION {[1..k -> RowPool] : k \in 0..MaxRows}

\* the row of the example: case number, parties, date, link
ExampleRow ==
    <<td(eg_case_no, <<>>), td(eg_parties, <<>>), td(eg_date, <<>>),
      td(<<>>, <<link(txt_order1, txt_view)>>)>>

\* a page with one table: with or without the id caseTable, its rows in a tbody or not
table_page(id, tbody, rows) ==
    [text |-> <<>>,
     tables |-> << [id |-> id,
                    head |-> IF tbody THEN <<>> ELSE rows,
                    tbody |-> tbody,
                    body |-> IF tbody THEN rows ELSE <<>>] >>]

\* the pages given to the parser
ParsePages ==
    {PageNoData}
    \cup {table_page(id, tbody, rows) :
            id \in {s_caseTable, <<>>}, tbody \in BOOLEAN, rows \in RowSeqs}
    \cup {table_page(s_caseTable, TRUE, <<ExampleRow>>),
          table_page(s_caseTable, TRUE, <<<<td(<<"1">>, <<>>)>> \o ExampleRow>>)}

ParseInit ==
    /\ store = <<>>
    /\ submitted = <<>>
    /\ now = 0
    /\ exchange = Idle
    /\ soup \in ParsePages
    /\ result = <<>>

\* result = scraper.parse_case_data(soup)
call_parse_case_data ==
    /\ result = <<>>
    /\ result' = <<parse_case_data(soup)>>
    /\ UNCHANGED <<store, submitted, now, exchange, soup>>

ParseNext == call_parse_case_data

ParseSpec == ParseInit /\ [][ParseNext]_vars

---------------------------------------------------------------------------
(* Properties *)

\* the positions of `call` among the calls a handler made
calls(events, call) == {i \in DOMAIN events : events[i] = call}

\* a request parameter that is absent or empty
missing(field) == field = None \/ Len(field) = 0

\* the exchange is a POST /search whose handler called scrape_case_data and
\* save_query_to_db; the record saved is then the last row of the store
Scraped == exchange.op = "search" /\ exchange.saved

\* the exchange is a POST /search that lacks a required field
Incomplete ==
    /\ exchange.op = "search"
    /\ \/ missing(exchange.form.case_type)
       \/ missing(exchange.form.case_number)
       \/ missing(exchange.form.case_year)

\* the terminal outcomes of a search
Statuses ==
    {"Found", "Not Found", "CAPTCHA Required", "CAPTCHA Failed", "Validation Error", "Error"}

\* test_app.py: assert 'required' in data['error'].lower()
txt_required == <<"r","e","q","u","i","r","e","d">>

\* test_app.py: assert 'not provided' in data['error']
txt_not_provided == <<"n","o","t"," ","p","r","o","v","i","d","e","d">>

(* C1: whenever scrape_case_data created a browser session, driver.quit is *)
(* called exactly once, as its last call before it returns; when no        *)
(* session was created, nothing is navigated and nothing is released.      *)
C1_SessionReleasedOnce ==
    Scraped =>
        IF calls(exchange.events, "session") # {}
        THEN /\ Cardinality(calls(exchange.events, "quit")) = 1
             /\ exchange.events[Len(exchange.events)] = "quit"
        ELSE /\ calls(exchange.events, "get") = {}
             /\ calls(exchange.events, "quit") = {}

C3_HistoryNewestFirst ==
    exchange.op = "history" =>
        /\ Len(exchange.rowids)
              = (IF Len(store) < HistoryLimit THEN Len(store) ELSE HistoryLimit)
        /\ \A i \in DOMAIN exchange.rowids : exchange.rowids[i] = Len(store) + 1 - i

(* C4: POST /search with case_type, case_number or case_year missing or    *)
(* empty answers with a body that has an error field, and its handler      *)
(* neither starts a browser nor calls scrape_case_data (nor saves).        *)
C4_IncompleteSearchRejected ==
    Incomplete =>
        /\ "error" \in DOMAIN exchange.body
        /\ exchange.events = <<>>
        /\ exchange.typed = <<>>
        /\ ~exchange.saved

\* a search whose year is empty has been answered
C4_Witness ==
    /\ exchange.op = "search"
    /\ exchange.form.case_type = <<"W", "P">>
    /\ exchange.form.case_number = <<"7">>
    /\ exchange.form.case_year = <<>>
    /\ exchange.body = [error |-> s_all_required]

(* C5: POST /search with a required parameter missing or empty answers     *)
(* with HTTP status 400 and an error message that contains 'required'.     *)
C5_IncompleteSearchIs400 ==
    Incomplete =>
        /\ exchange.http = 400
        /\ "error" \in DOMAIN exchange.body
        /\ str_in(txt_required, str_lower(exchange.body["error"]))

(* C6: GET /download_pdf without a url parameter, or with an empty one,    *)
(* answers with HTTP 200 and an error that contains 'not provided', and    *)
(* fetches nothing.                                                        *)
C6_NoUrlNoFetch ==
    (exchange.op = "download_pdf" /\ missing(exchange.url)) =>
        /\ exchange.http = 200
        /\ "error" \in DOMAIN exchange.body
        /\ str_in(txt_not_provided, exchange.body["error"])
        /\ exchange.events = <<>>

\* a download with an empty url has been answered
C6_Witness ==
    /\ exchange.op = "download_pdf"
    /\ exchange.url = <<>>
    /\ exchange.body = [error |-> s_pdf_not_provided]

(* C7 as stated: every record has status 'Not Found' if and only if no     *)
(* parties value was captured for its search.                              *)
C7_NotFoundIffNoParties ==
    \A i \in DOMAIN store : (store[i].status = "Not Found") <=> (store[i].parties = <<>>)

(* C7: a record has status 'Found' only with a parties value; a search     *)
(* that ended before the parser is recorded without parties and with a     *)
(* status other than 'Found' and 'Not Found'; a search whose parser ran    *)
(* is recorded as 'Found' or 'Not Found', and when the parser ran without  *)
(* a fault, as 'Not Found' if and only if no parties value was captured.   *)
C7_NotFoundIffParserCapturedNoParties ==
    Scraped =>
        LET rec == store[Len(store)]
            parsed == calls(exchange.events, "parse_case_data") # {}
            faulted == calls(exchange.events, "parse_error") # {}
        IN  /\ rec.status = "Found" => rec.parties # <<>>
            /\ ~parsed => rec.status \notin {"Found", "Not Found"} /\ rec.parties = <<>>
            /\ parsed => rec.status \in {"Found", "Not Found"}
            /\ (parsed /\ ~faulted) => ((rec.status = "Not Found") <=> (rec.parties = <<>>))

\* after a search that the court site refused for its CAPTCHA, a search whose page the
\* parser read without a fault and without finding a row
C7_Witness ==
    /\ Scraped
    /\ Len(store) = 2
    /\ store[1].status = "CAPTCHA Failed"
    /\ store[1].parties = <<>>
    /\ calls(exchange.events, "parse_case_data") # {}
    /\ calls(exchange.events, "parse_error") = {}
    /\ store[2].status = "Not Found"
    /\ store[2].parties = <<>>

(* C8 as stated: every result of scrape_case_data carries a status, one of *)
(* the six terminal outcomes.                                              *)
C8_ResultCarriesStatus ==
    Scraped =>
        /\ "status" \in DOMAIN exchange.body
        /\ exchange.body["status"] \in Statuses

(* C8: a result of scrape_case_data carries a status of the six terminal   *)
(* outcomes, which is the status recorded, or it carries nothing but an    *)
(* error: the driver could not be initialised or an exception reached the  *)
(* outer handler, and the status recorded is 'Error'.  Every status in the *)
(* store is one of the six.                                                *)
C8_StatusListedOrErrorOnly ==
    /\ \A i \in DOMAIN store : store[i].status \in Statuses
    /\ Scraped =>
          IF "status" \in DOMAIN exchange.body
          THEN /\ exchange.body["status"] \in Statuses
               /\ store[Len(store)].status = exchange.body["status"]
          ELSE /\ DOMAIN exchange.body = {"error"}
               /\ exchange.body["error"] \in {s_init_failed, exception_text}
               /\ store[Len(store)].status = "Error"

\* a search whose browser could not be started: an error without a status, recorded as Error
C8_Witness ==
    /\ Scraped
    /\ exchange.body = [error |-> s_init_failed]
    /\ store[Len(store)].status = "Error"

(* C9: once the form fields are filled, the value typed into the CAPTCHA   *)
(* input is the caller's token when one is supplied, whatever the code     *)
(* displayed, and without a token the displayed code if and only if that   *)
(* code is non-empty and numeric; it is typed once, unless the step        *)
(* raised.  When nothing is typed the form is not submitted and the search *)
(* returns status 'CAPTCHA Required'.                                      *)
C9_CaptchaValueTyped ==
    (Scraped /\ calls(exchange.events, "select_case_year") # {}) =>
        LET token == exchange.form.captcha_token
            code == IF exchange.seen = None THEN <<>> ELSE str_strip(exchange.seen)
            numeric == Len(code) > 0 /\ \A i \in DOMAIN code : code[i] \in Digits
            raised == exchange.body = captcha_error
        IN  /\ (exchange.seen # None /\ ~missing(token)) =>
                  exchange.typed = <<token>> \/ (exchange.typed = <<>> /\ raised)
            /\ (exchange.seen # None /\ missing(token) /\ numeric) =>
                  exchange.typed = <<code>> \/ (exchange.typed = <<>> /\ raised)
            /\ (exchange.seen = None \/ (missing(token) /\ ~numeric)) => exchange.typed = <<>>
            /\ exchange.typed = <<>> =>
                  /\ calls(exchange.events, "click_search") = {}
                  /\ calls(exchange.events, "press_enter") = {}
                  /\ "status" \in DOMAIN exchange.body
                  /\ exchange.body["status"] = "CAPTCHA Required"

\* a token was supplied while the page displayed a numeric code: the token was typed
C9_Witness ==
    /\ Scraped
    /\ exchange.form.captcha_token = <<"a", "b">>
    /\ exchange.seen = <<" ", "4", "2", "\n">>
    /\ exchange.typed = << <<"a", "b">> >>
    /\ calls(exchange.events, "click_search") # {}

\* the exchange is a search that returned status 'CAPTCHA Required'
CaptchaRequired ==
    /\ Scraped
    /\ "status" \in DOMAIN exchange.body
    /\ exchange.body["status"] = "CAPTCHA Required"

(* C10 as stated: every result with status 'CAPTCHA Required' carries both *)
(* displayed_captcha and randomid.                                         *)
C10_RequiredCarriesBoth ==
    CaptchaRequired => {"displayed_captcha", "randomid"} \subseteq DOMAIN exchange.body

(* C10: a result with status 'CAPTCHA Required' that was returned because  *)
(* no token was supplied and the displayed code is not numeric carries     *)
(* displayed_captcha, the code displayed, and randomid; the one returned   *)
(* because the CAPTCHA step raised carries only error and status.          *)
C10_RequiredCarriesBothUnlessRaised ==
    CaptchaRequired =>
        IF str_startswith(exchange.body["error"], s_captcha_unhandled)
        THEN DOMAIN exchange.body = {"error", "status"}
        ELSE /\ DOMAIN exchange.body = {"error", "status", "displayed_captcha", "randomid"}
             /\ exchange.body["error"] = s_captcha_required
             /\ exchange.seen # None
             /\ exchange.body["displayed_captcha"] = str_strip(exchange.seen)
             /\ missing(exchange.form.captcha_token)
             /\ \/ exchange.body["displayed_captcha"] = <<>>
                \/ \E i \in DOMAIN exchange.body["displayed_captcha"] :
                      exchange.body["displayed_captcha"][i] \notin Digits

\* no token and an unreadable code: the result carries the code and the key
C10_Witness ==
    /\ CaptchaRequired
    /\ exchange.form.captcha_token = None
    /\ DOMAIN exchange.body = {"error", "status", "displayed_captcha", "randomid"}
    /\ exchange.body["displayed_captcha"] = <<"4", "x">>
    /\ exchange.body["randomid"] = <<"r", "9">>

\* one of the alert boxes that a find_elements call of the search returned is displayed
\* and its text contains 'incorrect' in some letter case
IncorrectAlertShown ==
    \E k \in DOMAIN exchange.alerts : \E i \in DOMAIN exchange.alerts[k] :
        /\ exchange.alerts[k][i].displayed = "yes"
        /\ str_in(s_incorrect, str_lower(exchange.alerts[k][i].text))

(* C11: whenever an alert box found after the submission, right after the  *)
(* click or in the later check, is displayed and its text contains         *)
(* 'incorrect' in any letter case, the search returns status 'CAPTCHA      *)
(* Failed' and the result parser is not run.  Stated for the searches that *)
(* went on to read the page.                                               *)
C11_IncorrectAlertFailsSearch ==
    (Scraped /\ IncorrectAlertShown /\ calls(exchange.events, "page_source") # {}) =>
        /\ "status" \in DOMAIN exchange.body
        /\ exchange.body["status"] = "CAPTCHA Failed"
        /\ calls(exchange.events, "parse_case_data") = {}

(* C12: whenever the page read after the submission contains the phrase    *)
(* 'field is required' in any letter case and no CAPTCHA failure was       *)
(* detected, the search ends with status 'Validation Error' and the result *)
(* parser is not run.  The page is the raw_response of the result.         *)
C12_RequiredPhraseIsValidationError ==
    (/\ Scraped
     /\ "raw_response" \in DOMAIN exchange.body
     /\ exchange.body["status"] # "CAPTCHA Failed"
     /\ str_in(s_field_is_required, str_lower(exchange.body["raw_response"]))) =>
        /\ exchange.body["status"] = "Validation Error"
        /\ calls(exchange.events, "parse_case_data") = {}

\* parse_case_data has been called on the page `soup` and has returned result[1]
Parsed == result # <<>>

\* the rows in the body of the results table, the first table with the id caseTable
results_rows(page) ==
    LET hits == {i \in DOMAIN page.tables : page.tables[i].id = s_caseTable}
        first == CHOOSE i \in hits : \A k \in hits : i <= k
    IN  IF hits = {} THEN <<>>
        ELSE IF page.tables[first].tbody THEN page.tables[first].body
        ELSE <<>>

\* the data cells (td) of a row
data_cells(row) == SelectSeq(row, LAMBDA c : c.tag = "td")

\* the text of a cell: the text in it and in its links, without the white space around each
cell_text(cell) == get_text(cell)

\* a data row with 4 or more cells and non-empty second and third cells
valid_row(row) ==
    /\ Len(data_cells(row)) >= 4
    /\ cell_text(data_cells(row)[2]) # <<>>
    /\ cell_text(data_cells(row)[3]) # <<>>

valid_rows(page) == {i \in DOMAIN results_rows(page) : valid_row(results_rows(page)[i])}

\* the cells of the first valid row of the results table
matched_cells(page) ==
    data_cells(results_rows(page)[CHOOSE i \in valid_rows(page) : \A k \in valid_rows(page) : i <= k])

(* C13: for a page whose results table has a body with a valid data row,   *)
(* parse_case_data returns status 'Found' with parties the text of the     *)
(* third cell and next_hearing_date the text of the fourth cell of the     *)
(* first valid row, whatever rows precede and follow it; without a link in *)
(* that row there is no error field.                                       *)
C13_FirstValidRowIsParsed ==
    (Parsed /\ valid_rows(soup) # {}) =>
        /\ result[1]["status"] = "Found"
        /\ result[1]["parties"] = cell_text(matched_cells(soup)[3])
        /\ result[1]["next_hearing_date"] = cell_text(matched_cells(soup)[4])
        /\ (\A i \in DOMAIN matched_cells(soup) : matched_cells(soup)[i].links = <<>>)
              => "error" \notin DOMAIN result[1]

\* a row of three cells was skipped and the row after it taken
C13_Witness ==
    /\ Parsed
    /\ Len(results_rows(soup)) = 2
    /\ Len(results_rows(soup)[1]) = 3
    /\ valid_rows(soup) = {2}
    /\ result[1]["status"] = "Found"
    /\ result[1]["parties"] = txt_parties2

\* the rows of all the tables of a page
RECURSIVE all_rows(_)
all_rows(tables) ==
    IF tables = <<>> THEN <<>>
    ELSE Head(tables).head \o Head(tables).body \o all_rows(Tail(tables))

\* the label keywords of the fallback scan
LabelKeywords ==
    {s_petitioner, s_respondent, s_filing, s_registration, s_listing, s_hearing, s_order,
     s_judgment}

\* the first cell of the row contains a label keyword
matches_label(row) ==
    /\ row # <<>>
    /\ \E k \in LabelKeywords : str_in(k, str_lower(cell_text(row[1])))

(* C14: for a page whose results table is absent or has no valid data row  *)
(* and in which no table row matches a fallback label keyword,             *)
(* parse_case_data returns status 'Not Found' with parties, filing_date,   *)
(* next_hearing_date and order_judgment_link present and empty, and        *)
(* nothing else.                                                           *)
C14_NothingFoundIsEmpty ==
    (/\ Parsed
     /\ valid_rows(soup) = {}
     /\ \A i \in DOMAIN all_rows(soup.tables) : ~matches_label(all_rows(soup.tables)[i])) =>
        /\ DOMAIN result[1]
              = {"parties", "filing_date", "next_hearing_date", "order_judgment_link", "status"}
        /\ result[1]["status"] = "Not Found"
        /\ result[1]["parties"] = <<>>
        /\ result[1]["filing_date"] = <<>>
        /\ result[1]["next_hearing_date"] = <<>>
        /\ result[1]["order_judgment_link"] = <<>>

\* a results table whose rows are a short row and a row with a label that is no keyword
C14_Witness ==
    /\ Parsed
    /\ Len(results_rows(soup)) = 2
    /\ Len(results_rows(soup)[1]) = 3
    /\ cell_text(results_rows(soup)[2][1]) = txt_Remarks
    /\ result[1]["status"] = "Not Found"

\* the links of the cells of a row, in cell order
RECURSIVE row_links(_)
row_links(cells) ==
    IF cells = <<>> THEN <<>> ELSE Head(cells).links \o row_links(Tail(cells))

\* the links of a row that qualify as order/judgment link (368-375), in cell order
qualifying_links(cells) ==
    SelectSeq(row_links(cells),
              LAMBDA l : link_qualifies(l.href, str_lower(str_strip(l.text))))

\* the URL stored for an href of the results table
stored_url(href) == IF str_startswith(href, s_http) THEN href ELSE urljoin(base_url, href)

(* C15: in the primary table path, when the matched row has qualifying     *)
(* links, order_judgment_link is the first of them in cell order; one in a *)
(* later cell never replaces it.  Stated for the parses without a fault.   *)
C15_FirstQualifyingLinkKept ==
    (/\ Parsed
     /\ valid_rows(soup) # {}
     /\ "error" \notin DOMAIN result[1]
     /\ qualifying_links(matched_cells(soup)) # <<>>) =>
        result[1]["order_judgment_link"] = stored_url(qualifying_links(matched_cells(soup))[1].href)

\* an absolute URL: a scheme and an authority
absolute_url(url) == url_has_scheme(url) /\ url_has_netloc(url)

\* the links of all the rows of a page
RECURSIVE rows_links(_)
rows_links(rows) ==
    IF rows = <<>> THEN <<>> ELSE row_links(Head(rows)) \o rows_links(Tail(rows))

(* C16: a stored order_judgment_link is an absolute URL: an absolute href  *)
(* of the page as it stands, or, for a relative href (one starting with    *)
(* 'http' or with '//' included), a URL of the origin                      *)
(* https://delhihighcourt.nic.in.                                          *)
C16_StoredLinkAbsolute ==
    (Parsed /\ result[1]["order_judgment_link"] # <<>>) =>
        /\ absolute_url(result[1]["order_judgment_link"])
        /\ \/ str_startswith(result[1]["order_judgment_link"], base_url \o <<"/">>)
           \/ \E i \in DOMAIN rows_links(all_rows(soup.tables)) :
                 /\ rows_links(all_rows(soup.tables))[i].href # None
                 /\ absolute_url(rows_links(all_rows(soup.tables))[i].href)
                 /\ rows_links(all_rows(soup.tables))[i].href = result[1]["order_judgment_link"]

\* the values the example row is said to parse to
example_parsed ==
    /\ result[1]["status"] = "Found"
    /\ result[1]["parties"] = eg_parties
    /\ result[1]["next_hearing_date"] = eg_date
    /\ "case_status" \in DOMAIN result[1]
    /\ result[1]["case_status"] = eg_PENDING
    /\ result[1]["order_judgment_link"] = eg_link

\* the text ends with a bracketed suffix "[...]"
has_bracketed_suffix(text) ==
    /\ text # <<>>
    /\ text[Len(text)] = "]"
    /\ \E i \in DOMAIN text : text[i] = "["
    /\ \A i \in 1..(Len(text) - 1) : text[i] # "]"

\* what is between the last "[" and the closing "]"
bracketed_suffix(text) ==
    SubSeq(text, (CHOOSE i \in DOMAIN text :
                     text[i] = "[" /\ \A k \in DOMAIN text : text[k] = "[" => k <= i) + 1,
           Len(text) - 1)

(* C17 as stated: the row whose cells are the case number 'W.P.(C)         *)
(* 123/2024 [PENDING]', 'John Doe vs State', '12-May-2025' and the link    *)
(* 'View' to 'order1.pdf' parses to the values of the example.             *)
C17_ExampleRowAsStated ==
    (Parsed /\ soup = table_page(s_caseTable, TRUE, <<ExampleRow>>)) => example_parsed

(* C17: the row that has a serial-number cell in front of the four cells   *)
(* of the example parses to status 'Found', parties 'John Doe vs State',   *)
(* next_hearing_date '12-May-2025', case_status 'PENDING' and              *)
(* order_judgment_link '<base>/order1.pdf'.  In a parse without a fault,   *)
(* case_status is the upper-cased bracketed suffix of the second cell of   *)
(* the matched row when that cell ends with one, and 'ACTIVE' when the     *)
(* cell has no bracket.                                                    *)
C17_ExampleRowWithSerialCell ==
    /\ (Parsed /\ soup = table_page(s_caseTable, TRUE, << <<td(<<"1">>, <<>>)>> \o ExampleRow >>))
          => example_parsed
    /\ (Parsed /\ valid_rows(soup) # {} /\ "error" \notin DOMAIN result[1]) =>
          /\ "case_status" \in DOMAIN result[1]
          /\ has_bracketed_suffix(cell_text(matched_cells(soup)[2])) =>
                result[1]["case_status"]
                   = str_upper(bracketed_suffix(cell_text(matched_cells(soup)[2])))
          /\ (\A i \in DOMAIN cell_text(matched_cells(soup)[2]) :
                 cell_text(matched_cells(soup)[2])[i] \notin {"[", "]"})
                => result[1]["case_status"] = s_ACTIVE

\* the example row with its serial-number cell has been parsed
C17_Witness ==
    /\ Parsed
    /\ soup = table_page(s_caseTable, TRUE, << <<td(<<"1">>, <<>>)>> \o ExampleRow >>)
    /\ result[1]["case_status"] = eg_PENDING
    /\ result[1]["order_judgment_link"] = eg_link

\* the calls of scrape_case_data up to driver.get: those of setup_driver
setup_calls ==
    IF calls(exchange.events, "get") = {} THEN exchange.events
    ELSE SubSeq(exchange.events, 1,
                (CHOOSE i \in calls(exchange.events, "get") :
                    \A k \in calls(exchange.events, "get") : i <= k) - 1)

(* C18: setup_driver launches the auto-provisioned driver first and the    *)
(* system driver only when that launch failed, and injects the script once *)
(* into the session it got.  When both launches fail or the injection      *)
(* fails no driver is returned: scrape_case_data returns the error 'Failed *)
(* to initialize browser driver' and has made no other call; otherwise it  *)
(* goes on to navigate.                                                    *)
C18_DriverSetupFallsBack ==
    Scraped =>
        /\ setup_calls \in {<<"launch_managed", "session", "execute_script">>,
                             <<"launch_managed", "launch_system", "session", "execute_script">>,
                             <<"launch_managed", "launch_system">>}
        /\ (exchange.body = [error |-> s_init_failed]) <=> (calls(exchange.events, "get") = {})
        /\ calls(exchange.events, "get") = {} => exchange.events = setup_calls
        /\ calls(exchange.events, "get") # {} => calls(setup_calls, "execute_script") # {}

\* the first launch failed, the system driver started, and the search went on to navigate
C18_Witness ==
    /\ Scraped
    /\ Len(exchange.events) >= 5
    /\ SubSeq(exchange.events, 1, 5)
          = <<"launch_managed", "launch_system", "session", "execute_script", "get">>

(* C19: the store is append-only.  Every step leaves every record that was *)
(* written in its place with all its fields; a step that changes the store *)
(* adds one record at the end and is the handling of a /search that passed *)
(* input validation; /, /history, /download_pdf and a rejected /search     *)
(* leave the store as it is.                                               *)
C19_StoreAppendOnly ==
    [][/\ Len(store') >= Len(store)
       /\ \A i \in DOMAIN store : store'[i] = store[i]
       /\ store' # store =>
             /\ Len(store') = Len(store) + 1
             /\ exchange'.op = "search"
             /\ ~missing(exchange'.form.case_type)
             /\ ~missing(exchange'.form.case_number)
             /\ ~missing(exchange'.form.case_year)
       /\ (exchange'.op \in {"index", "history", "download_pdf"}) => store' = store
       /\ (exchange'.op = "search" /\ ~exchange'.saved) => store' = store]_vars

\* with two records written, a /history has been answered and both records are in place
C19_Witness ==
    /\ exchange.op = "history"
    /\ Len(store) = 2
    /\ store[1].id = 1
    /\ store[2].id = 2
    /\ store[1].query_timestamp < store[2].query_timestamp

(* C20: a fault raised in parse_case_data does not abort the search: the   *)
(* response is a JSON body with the five fields of the Case Result, as far *)
(* as they were filled before the fault, and an error field, and one       *)
(* record with those fields is persisted.  On the page whose order row     *)
(* faults after its petitioner row was read, the parties are kept.         *)
C20_ParserFaultSwallowed ==
    (Scraped /\ calls(exchange.events, "parse_error") # {}) =>
        /\ exchange.http = 200
        /\ {"parties", "filing_date", "next_hearing_date", "order_judgment_link", "status",
            "error"} \subseteq DOMAIN exchange.body
        /\ exchange.body["status"] \in {"Found", "Not Found"}
        /\ Len(store) = Len(submitted)
        /\ store[Len(store)].status = exchange.body["status"]
        /\ store[Len(store)].parties = exchange.body["parties"]
        /\ store[Len(store)].order_judgment_link = exchange.body["order_judgment_link"]
        /\ exchange.body["raw_response"] = page_source_of(PageLabels)
              => exchange.body["parties"] = txt_parties
        /\ exchange.events[Len(exchange.events)] = "quit"

\* the order row of the page faulted after its petitioner row was read
C20_Witness ==
    /\ Scraped
    /\ calls(exchange.events, "parse_error") # {}
    /\ exchange.body["raw_response"] = page_source_of(PageLabels)
    /\ exchange.body["parties"] = txt_parties
    /\ store[Len(store)].parties = txt_parties

\* the row has a label cell and a value cell
labelled(row) == Len(row) >= 2

\* the label of a row: the text of its first cell, lower-cased
row_label(row) == SubSeq(str_lower(cell_text(row[1])), 1, Len(cell_text(row[1])))

\* the label contains one of the keywords
has_keyword(label, keywords) == \E k \in keywords : str_in(k, label)

\* the label of the row, lower-cased, contains one of the keywords
label_contains(row, keywords) == labelled(row) /\ has_keyword(row_label(row), keywords)

PartiesKeywords == {s_petitioner, s_respondent}
FilingKeywords == {s_filing, s_registration}
HearingKeywords == {s_listing, s_hearing}
OrderKeywords == {s_order, s_judgment}

\* the field a label counts for: the first, in the order parties, filing date, hearing
\* date, order link, whose keywords it contains
field_of(label) ==
    IF has_keyword(label, PartiesKeywords) THEN "parties"
    ELSE IF has_keyword(label, FilingKeywords) THEN "filing_date"
    ELSE IF has_keyword(label, HearingKeywords) THEN "next_hearing_date"
    ELSE IF has_keyword(label, OrderKeywords) THEN "order_judgment_link"
    ELSE "none"

\* the field a row counts for
label_field(row) == IF labelled(row) THEN field_of(row_label(row)) ELSE "none"

\* the links to a PDF in the value cell of a row
pdf_links(row) ==
    SelectSeq(row[2].links,
              LAMBDA l : l.href # None /\ l.href # <<>> /\ str_in(s_pdf, str_lower(l.href)))

\* a row that counts for a field and has something to store in it
captures(row, field) ==
    /\ label_field(row) = field
    /\ field = "order_judgment_link" => pdf_links(row) # <<>>

\* what a capturing row stores in its field
captured(row, field) ==
    IF field = "order_judgment_link" THEN urljoin(base_url, pdf_links(row)[1].href)
    ELSE cell_text(row[2])

\* an order row whose first PDF link cannot be resolved: the scan ends there with a fault
faulty_row(row) ==
    /\ labelled(row)
    /\ pdf_links(row) # <<>>
    /\ urljoin_raises(pdf_links(row)[1].href)
    /\ label_field(row) = "order_judgment_link"

\* the rows the scan gets through: those before the first faulty row
scanned_rows(rows) == {i \in DOMAIN rows : \A k \in 1..i : ~faulty_row(rows[k])}

last_of(indices) == CHOOSE i \in indices : \A k \in indices : k <= i

\* the value the scan leaves in a field: that of the last scanned row capturing it
kept(rows, field) ==
    IF \A i \in scanned_rows(rows) : ~captures(rows[i], field) THEN <<>>
    ELSE captured(rows[last_of({i \in scanned_rows(rows) : captures(rows[i], field)})], field)

\* the value of the last row whose label contains one of the keywords
last_matching_value(rows, keywords) ==
    IF \A i \in DOMAIN rows : ~label_contains(rows[i], keywords) THEN <<>>
    ELSE cell_text(rows[last_of({i \in DOMAIN rows : label_contains(rows[i], keywords)})][2])

FallbackFields == {"parties", "filing_date", "next_hearing_date", "order_judgment_link"}

(* C21 as stated: when the results table gave no valid row, the status is  *)
(* 'Found' if and only if the last row whose first cell contains           *)
(* 'petitioner' or 'respondent' has a non-empty value, and parties,        *)
(* filing_date and next_hearing_date hold the value of the last row whose  *)
(* first cell contains a keyword of that label.                            *)
C21_LastMatchingRowKept ==
    (Parsed /\ valid_rows(soup) = {}) =>
        /\ result[1]["status"] = "Found"
              <=> last_matching_value(all_rows(soup.tables), PartiesKeywords) # <<>>
        /\ result[1]["parties"] = last_matching_value(all_rows(soup.tables), PartiesKeywords)
        /\ result[1]["filing_date"] = last_matching_value(all_rows(soup.tables), FilingKeywords)
        /\ result[1]["next_hearing_date"]
              = last_matching_value(all_rows(soup.tables), HearingKeywords)

(* C21: when the results table gave a valid row the label scan does not    *)
(* run: filing_date stays empty and parties is the third cell of that row. *)
(* Otherwise every row of two or more cells counts for the first of        *)
(* parties, filing date, hearing date, order link whose keyword its first  *)
(* cell contains; each field holds what the last scanned row capturing it  *)
(* gave (for the order link: the last such row that has a PDF link), a     *)
(* faulty order link ends the scan with an error field and status 'Not     *)
(* Found', and without a fault the status is 'Found' if and only if the    *)
(* parties kept are non-empty.                                             *)
C21_LastCapturingRowKept ==
    /\ (Parsed /\ valid_rows(soup) # {}) =>
          /\ result[1]["filing_date"] = <<>>
          /\ result[1]["parties"] = cell_text(matched_cells(soup)[3])
    /\ (Parsed /\ valid_rows(soup) = {}) =>
          /\ \A f \in FallbackFields : result[1][f] = kept(all_rows(soup.tables), f)
          /\ "error" \in DOMAIN result[1]
                <=> \E i \in DOMAIN all_rows(soup.tables) : faulty_row(all_rows(soup.tables)[i])
          /\ result[1]["status"] = "Found"
                <=> /\ "error" \notin DOMAIN result[1]
                    /\ result[1]["parties"] # <<>>
          /\ result[1]["status"] \in {"Found", "Not Found"}

\* a hearing row after another: the second date is kept, the status stays 'Not Found'
C21_Witness ==
    /\ Parsed
    /\ valid_rows(soup) = {}
    /\ Len(all_rows(soup.tables)) = 2
    /\ label_field(all_rows(soup.tables)[1]) = "next_hearing_date"
    /\ label_field(all_rows(soup.tables)[2]) = "next_hearing_date"
    /\ cell_text(all_rows(soup.tables)[1][2]) = txt_date
    /\ result[1]["next_hearing_date"] = eg_date
    /\ result[1]["parties"] = <<>>
    /\ result[1]["status"] = "Not Found"

=============================================================================
